---- MODULE Spec2Model ----
(***************************************************************************)
(* AFMDW Task Management System (src/AFMDW_TMS.py): the in-memory asset    *)
(* collection and owner registry of AFMDWTaskManagementSystem, the two     *)
(* JSON files behind them, the asset form, the asset tree and the handlers *)
(* that change them; the owner handlers, the two query modes with their    *)
(* audit log, the five reports and the bundle export.                      *)
(***************************************************************************)
EXTENDS Integers, Sequences, FiniteSets, TLC

VARIABLES assets, owners, data_file, owners_file, form, tree, selection, pc, faults, last

\* Settings tab: the owner entry and the file export_bundle_json writes
VARIABLES new_owner_var, bundle_file

\* Query tab and the Advanced Query window; the query_history table
VARIABLES search_type_var, search_term_var, search_tree, criteria, results_text,
          query_history

\* Reports tab
VARIABLES report_text

\* what the handlers of the asset tab never touch
elsewhere ==
    <<new_owner_var, bundle_file, search_type_var, search_term_var, search_tree,
      criteria, results_text, query_history, report_text>>

vars ==
    <<assets, owners, data_file, owners_file, form, tree, selection, pc, faults, last,
      elsewhere>>

(* ---------------------------------------------------------------------- *)
(* Bounds                                                                  *)
(* ---------------------------------------------------------------------- *)
\* add_asset is not offered once the collection holds this many records
MaxAssets == 2

\* a search that would be logged is not offered once query_history holds
\* this many rows
MaxLog == 2

\* at most this many saves of one run fail or are cut short by a crash
MaxFaults == 1

(* ---------------------------------------------------------------------- *)
(* JSON values.  A record key read from a file is a JSON string or a JSON  *)
(* number; the form only ever produces strings.  Python's == between a str *)
(* and an int is False, which record equality on the tagged value gives.   *)
(* ---------------------------------------------------------------------- *)
Str(s) == [json |-> "string", text |-> s]

Num(s) == [json |-> "number", text |-> s]

\* Python's None: what dict.get(key) gives for a key the record lacks
None == [json |-> "null", text |-> "None"]

\* the text Tcl holds for a value put in a tree row, and hands back as str
TclText(v) == v.text

(* ---------------------------------------------------------------------- *)
(* Text.  A Python str is a TLA+ string; Spelling gives the characters of  *)
(* every str the model uses, so that strip(), lower(), "in", float() and   *)
(* sorted() are computed on characters.                                    *)
(* ---------------------------------------------------------------------- *)
Spelling ==
    {<<"", <<>>>>,
     <<" ", <<" ">>>>,
     <<"Ann", <<"A", "n", "n">>>>,
     <<" Ann ", <<" ", "A", "n", "n", " ">>>>,
     <<"Bob", <<"B", "o", "b">>>>,
     <<"Alice", <<"A", "l", "i", "c", "e">>>>,
     <<"ali", <<"a", "l", "i">>>>,
     <<"ACT", <<"A", "C", "T">>>>,
     <<"act", <<"a", "c", "t">>>>,
     <<"7", <<"7">>>>,
     <<"A1", <<"A", "1">>>>,
     <<"A2", <<"A", "2">>>>,
     <<"A3", <<"A", "3">>>>,
     <<"A5", <<"A", "5">>>>,
     <<"A6", <<"A", "6">>>>,
     <<"A7", <<"A", "7">>>>,
     <<"A8", <<"A", "8">>>>,
     <<"A9", <<"A", "9">>>>,
     <<"a1", <<"a", "1">>>>,
     <<"Pump", <<"P", "u", "m", "p">>>>,
     <<"Hardware", <<"H", "a", "r", "d", "w", "a", "r", "e">>>>,
     <<"Software", <<"S", "o", "f", "t", "w", "a", "r", "e">>>>,
     <<"Active", <<"A", "c", "t", "i", "v", "e">>>>,
     <<"Inactive", <<"I", "n", "a", "c", "t", "i", "v", "e">>>>,
     <<"Lab", <<"L", "a", "b">>>>,
     <<"500", <<"5", "0", "0">>>>,
     <<"1500", <<"1", "5", "0", "0">>>>,
     <<"abc", <<"a", "b", "c">>>>,
     <<"12", <<"1", "2">>>>,
     <<"3", <<"3">>>>,
     <<"2024-01-01", <<"2", "0", "2", "4", "-", "0", "1", "-", "0", "1">>>>,
     <<"2024-11-30", <<"2", "0", "2", "4", "-", "1", "1", "-", "3", "0">>>>,
     <<"2024-13-01", <<"2", "0", "2", "4", "-", "1", "3", "-", "0", "1">>>>,
     <<"2024-01-31", <<"2", "0", "2", "4", "-", "0", "1", "-", "3", "1">>>>,
     <<"1", <<"1">>>>,
     <<"Unknown", <<"U", "n", "k", "n", "o", "w", "n">>>>,
     <<"Unassigned", <<"U", "n", "a", "s", "s", "i", "g", "n", "e", "d">>>>}

Chars(s) == (CHOOSE p \in Spelling : p[1] = s)[2]

\* the str made of these characters
Text(cs) == (CHOOSE p \in Spelling : p[2] = cs)[1]

RECURSIVE lstrip(_)
lstrip(cs) == IF cs # <<>> /\ Head(cs) = " " THEN lstrip(Tail(cs)) ELSE cs

RECURSIVE rstrip(_)
rstrip(cs) ==
    IF cs # <<>> /\ cs[Len(cs)] = " " THEN rstrip(SubSeq(cs, 1, Len(cs) - 1)) ELSE cs

\* str.strip()
strip(s) == Text(rstrip(lstrip(Chars(s))))

\* the characters the model's texts are made of, in code point order
CodePoints ==
    <<" ", "-", "0", "1", "2", "3", "4", "5", "6", "7", "8", "9",
      "A", "B", "C", "D", "E", "F", "G", "H", "I", "J", "K", "L", "M",
      "N", "O", "P", "Q", "R", "S", "T", "U", "V", "W", "X", "Y", "Z",
      "a", "b", "c", "d", "e", "f", "g", "h", "i", "j", "k", "l", "m",
      "n", "o", "p", "q", "r", "s", "t", "u", "v", "w", "x", "y", "z">>

\* ord(c), up to a monotone renumbering
Rank(c) == CHOOSE i \in DOMAIN CodePoints : CodePoints[i] = c

IsUpper(c) == Rank(c) \in Rank("A")..Rank("Z")

\* str.lower(), character by character
LowerChars(cs) ==
    [i \in DOMAIN cs |->
        IF IsUpper(cs[i]) THEN CodePoints[Rank(cs[i]) - Rank("A") + Rank("a")] ELSE cs[i]]

lower(s) == Text(LowerChars(Chars(s)))

IsDigit(c) == Rank(c) \in Rank("0")..Rank("9")

\* the number a string of decimal digits denotes
RECURSIVE DecimalValue(_)
DecimalValue(cs) ==
    IF cs = <<>> THEN 0
    ELSE 10 * DecimalValue(SubSeq(cs, 1, Len(cs) - 1)) + (Rank(cs[Len(cs)]) - Rank("0"))

\* float(s) and int(s) raise ValueError: of the texts of the model, the
\* non-empty strings of digits are the numbers
NoNumber(s) == Chars(s) = <<>> \/ \E i \in DOMAIN Chars(s) : ~IsDigit(Chars(s)[i])

NumberOf(s) == DecimalValue(Chars(s))

\* s < t for two str: character by character, by code point
RECURSIVE CharsBefore(_, _)
CharsBefore(a, b) ==
    IF b = <<>> THEN FALSE
    ELSE IF a = <<>> THEN TRUE
    ELSE IF Head(a) = Head(b) THEN CharsBefore(Tail(a), Tail(b))
    ELSE Rank(Head(a)) < Rank(Head(b))

Before(s, t) == CharsBefore(Chars(s), Chars(t))

\* sub in s, on characters
Contains(sub, cs) ==
    \E i \in 0..(Len(cs) - Len(sub)) : SubSeq(cs, i + 1, i + Len(sub)) = sub

(* ---------------------------------------------------------------------- *)
(* The asset form: the eleven StringVar of __init__                        *)
(* ---------------------------------------------------------------------- *)
FormFields ==
    {"asset_id_var", "asset_name_var", "asset_type_var", "status_var", "owner_var",
     "location_var", "acquisition_date_var", "release_date", "cost_var",
     "warranty_var", "notes_var"}

EmptyForm == [v \in FormFields |-> ""]

\* what the user can have typed into the form
TypedIds == {"", "A1", "a1"}

TypedNames == {"", "Pump"}

TypedForms ==
    { [asset_id_var |-> i, asset_name_var |-> n, asset_type_var |-> "Hardware",
       status_var |-> "Active", owner_var |-> "Ann", location_var |-> "Lab",
       acquisition_date_var |-> "2024-01-01", release_date |-> "2026-01-13",
       cost_var |-> "500", warranty_var |-> "12", notes_var |-> ""]
      : i \in TypedIds, n \in TypedNames }

\* variant: the release date is read from the acquisition date variable
build_record_from_form_wrong_var(f) ==
    [id |-> Str(f.asset_id_var),
     name |-> f.asset_name_var,
     type |-> f.asset_type_var,
     status |-> f.status_var,
     owner |-> f.owner_var,
     location |-> f.location_var,
     acquisition_date |-> f.acquisition_date_var,
     release_date |-> f.acquisition_date_var,
     cost |-> f.cost_var,
     warranty |-> f.warranty_var,
     notes |-> f.notes_var]

build_record_from_form(f) ==
    [id |-> Str(f.asset_id_var),
     name |-> f.asset_name_var,
     type |-> f.asset_type_var,
     status |-> f.status_var,
     owner |-> f.owner_var,
     location |-> f.location_var,
     acquisition_date |-> f.acquisition_date_var,
     release_date |-> f.release_date,
     cost |-> f.cost_var,
     warranty |-> f.warranty_var,
     notes |-> f.notes_var]

load_selected_record(asset) ==
    [asset_id_var |-> TclText(asset.id),
     asset_name_var |-> asset.name,
     asset_type_var |-> asset.type,
     status_var |-> asset.status,
     owner_var |-> asset.owner,
     location_var |-> asset.location,
     acquisition_date_var |-> asset.acquisition_date,
     release_date |-> asset.release_date,
     cost_var |-> asset.cost,
     warranty_var |-> asset.warranty,
     notes_var |-> asset.notes]

clear_form == EmptyForm

(* ---------------------------------------------------------------------- *)
(* The asset tree                                                          *)
(* ---------------------------------------------------------------------- *)
\* dict.get(key, default)
Get(asset, key, default) == IF key \in DOMAIN asset THEN asset[key] ELSE default

\* one row of refresh_tree: the eleven values, as the text Tcl keeps
TreeRow(asset) ==
    <<TclText(asset.id), Get(asset, "name", ""), Get(asset, "type", ""),
      Get(asset, "status", ""), Get(asset, "owner", ""), Get(asset, "location", ""),
      Get(asset, "acquisition_date", ""), Get(asset, "release_date", ""),
      Get(asset, "cost", ""), Get(asset, "warranty", ""), Get(asset, "notes", "")>>

refresh_tree(as) == [i \in 1..Len(as) |-> TreeRow(as[i])]

\* item_values[0] of the selected row, compared with asset["id"]
SelectedId == Str(tree[selection][1])

(* ---------------------------------------------------------------------- *)
(* Files.  A file is absent, holds a complete JSON document (its items, in *)
(* order), or holds a proper prefix of one: what open(path, 'w') followed  *)
(* by an interrupted json.dump leaves.  json.load accepts only a complete  *)
(* document.                                                               *)
(* ---------------------------------------------------------------------- *)
Absent == [exists |-> FALSE, complete |-> FALSE, items |-> <<>>]

\* json.dump of a list (or of a dict, item by item, in insertion order)
Dump(items) == [exists |-> TRUE, complete |-> TRUE, items |-> items]

\* the file after open(path, 'w') truncated it and the dump did not finish
Truncated == [exists |-> TRUE, complete |-> FALSE, items |-> <<>>]

Parses(file) == file.exists /\ file.complete

\* outcomes of one open-and-dump
SaveOutcomes == {"ok", "open_failed", "write_failed", "crashed"}

\* the files one save can leave behind, by outcome: a crash can come before
\* the open, during the dump or after it
Written(io, file, items) ==
    CASE io = "ok" -> {Dump(items)}
      [] io = "open_failed" -> {file}
      [] io = "write_failed" -> {Truncated}
      [] OTHER -> {file, Truncated, Dump(items)}

\* the outcomes a save can still have
Possible(n) == IF n < MaxFaults THEN SaveOutcomes ELSE {"ok"}

Fault(io) == IF io = "ok" THEN 0 ELSE 1

\* save_data / save_owners: the dialog the except clause shows
SaveDialogs(io) == IF io \in {"open_failed", "write_failed"} THEN <<"Save Error">> ELSE <<>>

\* variant: a load that fails leaves the collection that was held before
Loaded_keeps_memory(file) == IF Parses(file) THEN file.items ELSE assets

\* load_data / load_owners
Loaded(file) == IF Parses(file) THEN file.items ELSE <<>>

LoadDialogs(file) == IF file.exists /\ ~Parses(file) THEN <<"Load Error">> ELSE <<>>

(* ---------------------------------------------------------------------- *)
(* Outcome of the last handler                                             *)
(* ---------------------------------------------------------------------- *)
\* printed: what the handler wrote to stdout or stderr; file: the file a
\* file dialog of the handler returned ("" when there was none)
Outcome(op, dialogs, save, osave) ==
    [op |-> op, dialogs |-> dialogs, save |-> save, save_owners |-> osave,
     printed |-> <<>>, file |-> ""]

\* the handler raised: Tk's report_callback_exception prints the traceback
\* and the main loop goes on
Raised(op) ==
    [Outcome(op, <<>>, "none", "none") EXCEPT !.printed = <<"Exception in Tkinter callback">>]

Shown(d) == \E i \in DOMAIN last.dialogs : last.dialogs[i] = d

(* ---------------------------------------------------------------------- *)
(* The Advanced Query window: the five StringVar of open_advanced_query    *)
(* ---------------------------------------------------------------------- *)
BlankCriteria ==
    [status_var |-> "", type_var |-> "", owner_var |-> "", min_cost_var |-> "",
     max_cost_var |-> ""]

(* ---------------------------------------------------------------------- *)
(* Initial state: first run, no file on disk                               *)
(* ---------------------------------------------------------------------- *)
Init ==
    /\ assets = <<>>
    /\ owners = <<>>
    /\ data_file = Absent
    /\ owners_file = Absent
    /\ form = EmptyForm
    /\ tree = refresh_tree(assets)
    /\ selection = 0
    /\ pc = "running"
    /\ faults = 0
    /\ last = Outcome("init", <<>>, "none", "none")
    /\ new_owner_var = ""
    /\ bundle_file = Absent
    /\ search_type_var = ""
    /\ search_term_var = ""
    /\ search_tree = <<>>
    /\ criteria = BlankCriteria
    /\ results_text = <<>>
    /\ query_history = <<>>
    /\ report_text = <<>>

(* ---------------------------------------------------------------------- *)
(* The user types into the form / clicks a row                             *)
(* ---------------------------------------------------------------------- *)
TypeForm ==
    /\ pc = "running"
    /\ UNCHANGED elsewhere
    /\ \E f \in TypedForms :
        /\ form' = f
        /\ last' = Outcome("type", <<>>, "none", "none")
    /\ UNCHANGED <<assets, owners, data_file, owners_file, tree, selection, pc, faults>>

\* on_tree_select's search: the first asset whose id equals the key
RECURSIVE FindById(_, _)
FindById(as, key) ==
    IF as = <<>> THEN <<>>
    ELSE IF Head(as).id = key THEN <<Head(as)>>
    ELSE FindById(Tail(as), key)

on_tree_select ==
    /\ pc = "running"
    /\ UNCHANGED elsewhere
    /\ \E row \in 1..Len(tree) :
        /\ selection' = row
        /\ LET found == FindById(assets, Str(tree[row][1]))
           IN  form' = IF found = <<>> THEN form ELSE load_selected_record(found[1])
        /\ last' = Outcome("select", <<>>, "none", "none")
    /\ UNCHANGED <<assets, owners, data_file, owners_file, tree, pc, faults>>

(* ---------------------------------------------------------------------- *)
(* Asset handlers                                                          *)
(* ---------------------------------------------------------------------- *)
\* a handler that ends in an error dialog and changes nothing
Rejected(op, dialog) ==
    /\ last' = Outcome(op, <<dialog>>, "none", "none")
    /\ UNCHANGED <<assets, owners, data_file, owners_file, form, tree, selection, pc, faults>>

\* the tail shared by add_asset, update_record and delete_asset:
\* save_data(); refresh_tree(); clear_form(); showinfo("Success", ...)
SaveRefreshClear(op, newAssets) ==
    \E io \in Possible(faults) : \E file \in Written(io, data_file, newAssets) :
        /\ assets' = newAssets
        /\ data_file' = file
        /\ faults' = faults + Fault(io)
        /\ UNCHANGED <<owners, owners_file>>
        /\ IF io = "crashed"
           THEN /\ pc' = "stopped"
                /\ last' = Outcome(op, <<>>, io, "none")
                /\ UNCHANGED <<form, tree, selection>>
           ELSE /\ tree' = refresh_tree(newAssets)
                /\ selection' = 0
                /\ form' = clear_form
                /\ last' = Outcome(op, SaveDialogs(io) \o <<"Success">>, io, "none")
                /\ UNCHANGED pc

\* variant: the owner typed into the form has to be a registered owner
RequiredMissing_or_owner_unknown(f) ==
    \/ f.asset_id_var = ""
    \/ f.asset_name_var = ""
    \/ \A i \in DOMAIN owners : owners[i].name # f.owner_var

\* variant: only the id is required
RequiredMissing_id_only(f) == f.asset_id_var = ""

\* add_asset, line 422: not id or not name
RequiredMissing(f) == f.asset_id_var = "" \/ f.asset_name_var = ""

\* variant: the new id is compared with the names of the stored records
AnyIdEquals_name(as, id) == \E i \in DOMAIN as : as[i].name = id.text

\* add_asset, line 429: any(a["id"] == asset["id"] for a in self.assets)
AnyIdEquals(as, id) == \E i \in DOMAIN as : as[i].id = id

\* variant: the new record is put in front
Appended_in_front(as, asset) == <<asset>> \o as

\* add_asset, line 433: self.assets.append(asset)
Appended(as, asset) == Append(as, asset)

add_asset ==
    /\ pc = "running"
    /\ UNCHANGED elsewhere
    /\ LET asset == build_record_from_form(form)
       IN  IF RequiredMissing(form)
           THEN Rejected("add", "Error: Asset ID and Name are required")
           ELSE IF AnyIdEquals(assets, asset.id)
           THEN Rejected("add", "Error: Asset ID already exists")
           ELSE /\ Len(assets) < MaxAssets
                /\ SaveRefreshClear("add", Appended(assets, asset))

\* list.index(x): the position of the first element equal to x
IndexOf(as, x) == CHOOSE i \in DOMAIN as : as[i] = x /\ \A j \in 1..(i - 1) : as[j] # x

\* update_record, lines 450-451: the first asset whose id equals the selected id
FirstWithId(as, id) ==
    IF \E i \in DOMAIN as : as[i].id = id
    THEN CHOOSE i \in DOMAIN as : as[i].id = id /\ \A j \in 1..(i - 1) : as[j].id # id
    ELSE 0

\* variant: the record built from the form keeps the id typed in the form
Updated_form_id(as, pos, id, f) ==
    [as EXCEPT ![IndexOf(as, as[pos])] = build_record_from_form(f)]

\* update_record, lines 452-454
Updated(as, pos, id, f) ==
    [as EXCEPT ![IndexOf(as, as[pos])] = [build_record_from_form(f) EXCEPT !.id = id]]

update_record ==
    /\ pc = "running"
    /\ UNCHANGED elsewhere
    /\ IF selection = 0
       THEN Rejected("update", "Error: Please select an asset to update")
       ELSE LET asset_id == SelectedId
                pos == FirstWithId(assets, asset_id)
            IN  IF pos = 0
                THEN Rejected("update", "Error: Asset not found")
                ELSE SaveRefreshClear("update", Updated(assets, pos, asset_id, form))

\* delete_asset, line 474: [a for a in self.assets if a["id"] != asset_id]
RECURSIVE WithoutId(_, _)
WithoutId(as, id) ==
    IF as = <<>> THEN <<>>
    ELSE IF Head(as).id # id THEN <<Head(as)>> \o WithoutId(Tail(as), id)
    ELSE WithoutId(Tail(as), id)

delete_asset ==
    /\ pc = "running"
    /\ UNCHANGED elsewhere
    /\ IF selection = 0
       THEN Rejected("delete", "Error: Please select an asset to delete")
       ELSE \E confirm \in BOOLEAN :
            IF confirm
            THEN SaveRefreshClear("delete", WithoutId(assets, SelectedId))
            ELSE /\ last' = Outcome("delete", <<>>, "none", "none")
                 /\ UNCHANGED <<assets, owners, data_file, owners_file, form, tree,
                                selection, pc, faults>>

(* ---------------------------------------------------------------------- *)
(* Owner handlers.  self.owners is a dict: the model keeps its items in    *)
(* insertion order, one entry per key.                                     *)
(* ---------------------------------------------------------------------- *)
\* what the user can have typed into the owner entry
TypedOwners == {"", " ", "Ann", " Ann ", "Bob"}

\* datetime.now().strftime("%Y-%m-%d %H:%M:%S") at the time of the click
Timestamps == {"2026-01-13 09:00:00", "2026-01-14 10:30:00"}

TypeOwner ==
    /\ pc = "running"
    /\ \E t \in TypedOwners : new_owner_var' = t
    /\ last' = Outcome("type_owner", <<>>, "none", "none")
    /\ UNCHANGED <<assets, owners, data_file, owners_file, form, tree, selection, pc, faults>>
    /\ UNCHANGED <<bundle_file, search_type_var, search_term_var, search_tree, criteria,
                   results_text, query_history, report_text>>

\* variant: the text of the entry is the key as it was typed
OwnerKey_untrimmed(typed) == typed

\* add_owner, line 569, and remove_owner, line 586
OwnerKey(typed) == strip(typed)

\* owner_name in self.owners
OwnerIn(os, name) == \E i \in DOMAIN os : os[i].name = name

\* del self.owners[owner_name]
RECURSIVE WithoutOwner(_, _)
WithoutOwner(os, name) ==
    IF os = <<>> THEN <<>>
    ELSE IF Head(os).name = name THEN WithoutOwner(Tail(os), name)
    ELSE <<Head(os)>> \o WithoutOwner(Tail(os), name)

\* the tail shared by add_owner and remove_owner: save_owners();
\* update_owner_combobox(); new_owner_var.set(""); showinfo("Success", ...)
SaveOwnersClear(op, newOwners) ==
    \E io \in Possible(faults) : \E file \in Written(io, owners_file, newOwners) :
        /\ owners' = newOwners
        /\ owners_file' = file
        /\ faults' = faults + Fault(io)
        /\ UNCHANGED <<assets, data_file, form, tree, selection>>
        /\ IF io = "crashed"
           THEN /\ pc' = "stopped"
                /\ last' = Outcome(op, <<>>, "none", io)
                /\ UNCHANGED new_owner_var
           ELSE /\ new_owner_var' = ""
                /\ last' = Outcome(op, SaveDialogs(io) \o <<"Success">>, "none", io)
                /\ UNCHANGED pc

add_owner ==
    /\ pc = "running"
    /\ UNCHANGED <<bundle_file, search_type_var, search_term_var, search_tree, criteria,
                   results_text, query_history, report_text>>
    /\ LET owner_name == OwnerKey(new_owner_var)
       IN  IF owner_name = ""
           THEN Rejected("add_owner", "Error: Please enter an owner name")
                /\ UNCHANGED new_owner_var
           ELSE IF OwnerIn(owners, owner_name)
           THEN Rejected("add_owner", "Error: Owner already exists")
                /\ UNCHANGED new_owner_var
           ELSE \E now \in Timestamps :
                    SaveOwnersClear("add_owner",
                                    Append(owners, [name |-> owner_name, created_date |-> now]))

remove_owner ==
    /\ pc = "running"
    /\ UNCHANGED <<bundle_file, search_type_var, search_term_var, search_tree, criteria,
                   results_text, query_history, report_text>>
    /\ LET owner_name == OwnerKey(new_owner_var)
       IN  IF owner_name = ""
           THEN Rejected("remove_owner", "Error: Please enter an owner name")
                /\ UNCHANGED new_owner_var
           ELSE IF ~OwnerIn(owners, owner_name)
           THEN Rejected("remove_owner", "Error: Owner not found")
                /\ UNCHANGED new_owner_var
           ELSE \E confirm \in BOOLEAN :
                IF confirm
                THEN SaveOwnersClear("remove_owner", WithoutOwner(owners, owner_name))
                ELSE /\ last' = Outcome("remove_owner", <<>>, "none", "none")
                     /\ UNCHANGED <<assets, owners, data_file, owners_file, form, tree,
                                    selection, pc, faults, new_owner_var>>

(* ---------------------------------------------------------------------- *)
(* Simple search                                                           *)
(* ---------------------------------------------------------------------- *)
\* the values of the "Search by" combobox (line 294), nothing chosen, and a
\* text typed into the combobox, which is not read-only
SearchTypes ==
    {"", "Asset ID", "Asset Name", "Owner", "Status", "Location", "Asset Type", "Cost"}

\* what the user can have typed into the search entry
SearchTerms == {"", "ali", "ACT", "7"}

\* the key perform_search reads for a search type; "" when no branch of the
\* if/elif chain (lines 638-649) is for the type
SearchKey(search_type) ==
    CASE search_type = "Asset ID" -> "id"
      [] search_type = "Asset Name" -> "name"
      [] search_type = "Owner" -> "owner"
      [] search_type = "Status" -> "status"
      [] search_type = "Location" -> "location"
      [] search_type = "Asset Type" -> "type"
      [] OTHER -> ""

\* the str a key of the record holds; an id read from a file can be a number
IsStr(asset, key) == key # "id" \/ asset.id.json = "string"

StrOf(asset, key) == IF key = "id" THEN asset.id.text ELSE Get(asset, key, "")

\* asset.get(key, "").lower() raises AttributeError for some record: the
\* callback ends there, Tk reports the exception on stderr
SearchRaises(as, search_type) ==
    /\ SearchKey(search_type) # ""
    /\ \E i \in DOMAIN as : ~IsStr(as[i], SearchKey(search_type))

\* search_term in asset.get(key, "").lower()
SearchMatch(asset, search_type, search_term) ==
    /\ SearchKey(search_type) # ""
    /\ Contains(Chars(search_term),
                LowerChars(Chars(StrOf(asset, SearchKey(search_type)))))

SearchResults(as, search_type, search_term) ==
    LET match(a) == SearchMatch(a, search_type, search_term)
    IN  SelectSeq(as, match)

\* one row of the results tree (lines 656-664), as the text Tcl keeps
SearchRow(asset) ==
    <<TclText(asset.id), Get(asset, "name", ""), Get(asset, "type", ""),
      Get(asset, "status", ""), Get(asset, "owner", ""), Get(asset, "location", "")>>

\* the row log_query inserts; the created_date column is left out
QueryLogEntry(query_type, params, results_count) ==
    [query_type |-> query_type, query_params |-> params, results |-> ToString(results_count)]

\* log_query: the row is inserted, or sqlite raises and the except clause
\* prints the failure
log_query(history, inserted, query_type, params, results_count) ==
    IF inserted THEN Append(history, QueryLogEntry(query_type, params, results_count))
    ELSE history

LogPrints(inserted) == IF inserted THEN <<>> ELSE <<"Failed to log query">>

perform_search ==
    /\ pc = "running"
    /\ UNCHANGED <<assets, owners, data_file, owners_file, form, tree, selection, pc, faults>>
    /\ UNCHANGED <<new_owner_var, bundle_file, search_type_var, search_term_var, criteria,
                   results_text, report_text>>
    /\ LET search_type == search_type_var
           search_term == lower(search_term_var)
       IN  IF search_type = "" \/ search_term = ""
           THEN /\ last' = Outcome("search",
                                   <<"Error: Please select search type and enter search term">>,
                                   "none", "none")
                /\ UNCHANGED <<search_tree, query_history>>
           ELSE IF SearchRaises(assets, search_type)
           THEN /\ search_tree' = <<>>
                /\ last' = Raised("search")
                /\ UNCHANGED query_history
           ELSE LET results == SearchResults(assets, search_type, search_term)
                IN  /\ Len(query_history) < MaxLog
                    /\ search_tree' = [i \in 1..Len(results) |-> SearchRow(results[i])]
                    /\ \E inserted \in BOOLEAN :
                          /\ query_history' =
                                log_query(query_history, inserted, "Search",
                                          [type |-> search_type, term |-> search_term],
                                          Len(results))
                          /\ last' = [Outcome("search", <<"Search Results">>, "none", "none")
                                        EXCEPT !.printed = LogPrints(inserted)]

(* ---------------------------------------------------------------------- *)
(* Advanced query                                                          *)
(* ---------------------------------------------------------------------- *)
\* what the five fields of the window can hold: a value of the list, a
\* field left empty, a number or some other text in the cost entries
Criteria ==
    [status_var : {"All", "Active", ""},
     type_var : {"All", "Hardware"},
     owner_var : {"All", "Alice"},
     min_cost_var : {"", "500", "abc"},
     max_cost_var : {"", "500", "abc"}]

\* lines 717-724: if var.get() != "All": [a for a in results if a.get(key) == var.get()]
ExactMatch(rs, key, wanted) ==
    LET same(a) == Get(a, key, None) = wanted
    IN  IF wanted # "All" THEN SelectSeq(rs, same) ELSE rs

\* float(a.get("cost", 0) or 0)
CostRaises(a) == Get(a, "cost", "") # "" /\ NoNumber(Get(a, "cost", ""))

CostOf(a) == IF Get(a, "cost", "") = "" THEN 0 ELSE NumberOf(Get(a, "cost", ""))

\* lines 726-731: the ValueError of float(), raised for the text of the
\* entry or for the cost of a record, leaves results as it was
AtLeast(rs, text) ==
    LET keep(a) == CostOf(a) >= NumberOf(text)
    IN  IF text = "" THEN rs
        ELSE IF NoNumber(text) THEN rs
        ELSE IF \E i \in DOMAIN rs : CostRaises(rs[i]) THEN rs
        ELSE SelectSeq(rs, keep)

\* lines 733-738
AtMost(rs, text) ==
    LET keep(a) == CostOf(a) <= NumberOf(text)
    IN  IF text = "" THEN rs
        ELSE IF NoNumber(text) THEN rs
        ELSE IF \E i \in DOMAIN rs : CostRaises(rs[i]) THEN rs
        ELSE SelectSeq(rs, keep)

\* lines 714-738
Filtered(as, crit) ==
    AtMost(AtLeast(ExactMatch(ExactMatch(ExactMatch(as, "status", crit.status_var),
                                         "type", crit.type_var),
                              "owner", crit.owner_var),
                   crit.min_cost_var),
           crit.max_cost_var)

\* lines 741-750: the count, then seven lines for every asset
ResultLines(rs) ==
    <<[found |-> Len(rs)]>>
        \o [i \in 1..Len(rs) |->
               <<TclText(rs[i].id), Get(rs[i], "name", "None"), Get(rs[i], "type", "None"),
                 Get(rs[i], "status", "None"), Get(rs[i], "owner", "None"),
                 Get(rs[i], "location", "None"), Get(rs[i], "cost", "None")>>]

execute_query ==
    /\ pc = "running"
    /\ UNCHANGED <<assets, owners, data_file, owners_file, form, tree, selection, pc, faults>>
    /\ UNCHANGED <<new_owner_var, bundle_file, search_type_var, search_term_var, search_tree,
                   criteria, query_history, report_text>>
    /\ results_text' = ResultLines(Filtered(assets, criteria))
    /\ last' = Outcome("advanced_query", <<>>, "none", "none")

(* ---------------------------------------------------------------------- *)
(* Dates: datetime.strptime(s, "%Y-%m-%d"), relativedelta(months=n) and    *)
(* the days of a difference of two datetime                                *)
(* ---------------------------------------------------------------------- *)
IsLeap(y) == (y % 4 = 0 /\ y % 100 # 0) \/ y % 400 = 0

DaysIn(y, m) ==
    IF m = 2 THEN (IF IsLeap(y) THEN 29 ELSE 28)
    ELSE IF m \in {4, 6, 9, 11} THEN 30 ELSE 31

\* date.toordinal()
RECURSIVE DaysBeforeMonth(_, _)
DaysBeforeMonth(y, m) == IF m = 1 THEN 0 ELSE DaysBeforeMonth(y, m - 1) + DaysIn(y, m - 1)

Ordinal(date) ==
    LET y == date[1] - 1
    IN  365 * y + (y \div 4) - (y \div 100) + (y \div 400)
            + DaysBeforeMonth(date[1], date[2]) + date[3]

\* the positions of the hyphens of a text
Hyphens(cs) == {i \in DOMAIN cs : cs[i] = "-"}

AllDigits(cs) == cs # <<>> /\ \A i \in DOMAIN cs : IsDigit(cs[i])

\* the three fields of a text with two hyphens
DateFields(cs) ==
    LET h1 == CHOOSE i \in Hyphens(cs) : \A j \in Hyphens(cs) : i <= j
        h2 == CHOOSE i \in Hyphens(cs) : \A j \in Hyphens(cs) : j <= i
    IN  <<SubSeq(cs, 1, h1 - 1), SubSeq(cs, h1 + 1, h2 - 1), SubSeq(cs, h2 + 1, Len(cs))>>

\* strptime raises ValueError: the text is not year-month-day in digits, or
\* names no day of the calendar
NoDate(s) ==
    LET cs == Chars(s)
    IN  \/ Cardinality(Hyphens(cs)) # 2
        \/ LET f == DateFields(cs)
           IN  \/ ~AllDigits(f[1]) \/ Len(f[1]) # 4
               \/ ~AllDigits(f[2]) \/ Len(f[2]) > 2
               \/ ~AllDigits(f[3]) \/ Len(f[3]) > 2
               \/ DecimalValue(f[2]) \notin 1..12
               \/ DecimalValue(f[3]) \notin 1..DaysIn(DecimalValue(f[1]), DecimalValue(f[2]))

DateOf(s) ==
    LET f == DateFields(Chars(s))
    IN  <<DecimalValue(f[1]), DecimalValue(f[2]), DecimalValue(f[3])>>

\* date + relativedelta(months=n): the day is cut to the length of the month
PlusMonths(date, n) ==
    LET total == date[1] * 12 + (date[2] - 1) + n
        y == total \div 12
        m == (total % 12) + 1
    IN  <<y, m, IF date[3] > DaysIn(y, m) THEN DaysIn(y, m) ELSE date[3]>>

\* datetime.now(): the day, and whether it is exactly midnight
Instants ==
    {[date |-> <<2025, 1, 15>>, midnight |-> TRUE],
     [date |-> <<2025, 1, 15>>, midnight |-> FALSE],
     [date |-> <<2024, 6, 1>>, midnight |-> FALSE],
     [date |-> <<2025, 1, 1>>, midnight |-> FALSE]}

\* (expiry_date - today).days, expiry_date being a midnight: timedelta keeps
\* the floor of the difference in days
DaysUntil(expiry, now) ==
    Ordinal(expiry) - Ordinal(now.date) - (IF now.midnight THEN 0 ELSE 1)

(* ---------------------------------------------------------------------- *)
(* Reports                                                                 *)
(* ---------------------------------------------------------------------- *)
\* generate_warranty_report, line 868
SoonDays == 90

\* sum(float(a.get("cost", 0) or 0) for a in as)
RECURSIVE TotalCost(_)
TotalCost(as) == IF as = <<>> THEN 0 ELSE CostOf(Head(as)) + TotalCost(Tail(as))

\* the sum raises ValueError: the callback ends there, report_text is not
\* written
TotalRaises(as) == \E i \in DOMAIN as : CostRaises(as[i])

\* the keys of a dict filled in one pass over the assets, in insertion order
RECURSIVE KeysOf(_, _, _)
KeysOf(as, key, default) ==
    IF as = <<>> THEN <<>>
    ELSE LET front == KeysOf(SubSeq(as, 1, Len(as) - 1), key, default)
             k == Get(as[Len(as)], key, default)
         IN  IF \E i \in DOMAIN front : front[i] = k THEN front ELSE Append(front, k)

\* the assets with this value of the key, in collection order
GroupOf(as, key, default, k) ==
    LET member(a) == Get(a, key, default) = k
    IN  SelectSeq(as, member)

\* sorted() of str keys
RECURSIVE SortedKeys(_)
SortedKeys(ks) ==
    IF ks = <<>> THEN <<>>
    ELSE LET front == SortedKeys(SubSeq(ks, 1, Len(ks) - 1))
             k == ks[Len(ks)]
             n == Cardinality({i \in DOMAIN front : ~Before(k, front[i])})
         IN  SubSeq(front, 1, n) \o <<k>> \o SubSeq(front, n + 1, Len(front))

\* variant: sorted(items, key=lambda x: x[1])[::-1], which turns the order of
\* equal pairs around
RECURSIVE SortedByCost_reversed(_)
SortedByCost_reversed(ps) ==
    IF ps = <<>> THEN <<>>
    ELSE LET front == SortedByCost_reversed(SubSeq(ps, 1, Len(ps) - 1))
             p == ps[Len(ps)]
             n == Cardinality({i \in DOMAIN front : front[i][2] > p[2]})
         IN  SubSeq(front, 1, n) \o <<p>> \o SubSeq(front, n + 1, Len(front))

\* sorted(items, key=lambda x: x[1], reverse=True): the pairs by falling
\* second component, equal ones in the order they had
RECURSIVE SortedByCost(_)
SortedByCost(ps) ==
    IF ps = <<>> THEN <<>>
    ELSE LET front == SortedByCost(SubSeq(ps, 1, Len(ps) - 1))
             p == ps[Len(ps)]
             n == Cardinality({i \in DOMAIN front : front[i][2] >= p[2]})
         IN  SubSeq(front, 1, n) \o <<p>> \o SubSeq(front, n + 1, Len(front))

\* the members of a group as the reports list them: name and id
Members(as) == [i \in DOMAIN as |-> <<Get(as[i], "name", "None"), TclText(as[i].id)>>]

\* f"{x / n:,.2f}" in hundredths: the quotient rounded to the nearest
\* hundredth, a tie to the even one
Hundredths(x, n) ==
    LET q == (100 * x) \div n
        r == (100 * x) % n
    IN  IF 2 * r < n THEN q
        ELSE IF 2 * r > n THEN q + 1
        ELSE IF q % 2 = 0 THEN q ELSE q + 1

\* the counts of generate_summary_report: key and number, by key
Counts(as, key) ==
    LET ks == SortedKeys(KeysOf(as, key, "Unknown"))
    IN  [i \in DOMAIN ks |-> <<ks[i], Len(GroupOf(as, key, "Unknown", ks[i]))>>]

SummaryReport(as, now) ==
    IF as = <<>>
    THEN [title |-> "ASSET SUMMARY REPORT", generated |-> now, total_assets |-> 0]
    ELSE [title |-> "ASSET SUMMARY REPORT", generated |-> now, total_assets |-> Len(as),
          total_cost |-> TotalCost(as), by_type |-> Counts(as, "type"),
          by_status |-> Counts(as, "status")]

OwnerReport(as, now) ==
    LET ks == SortedKeys(KeysOf(as, "owner", "Unassigned"))
    IN  [title |-> "OWNER DISTRIBUTION REPORT", generated |-> now,
         groups |-> [i \in DOMAIN ks |->
                        LET g == GroupOf(as, "owner", "Unassigned", ks[i])
                        IN  [owner |-> ks[i], total_assets |-> Len(g),
                             total_cost |-> TotalCost(g), assets |-> Members(g)]]]

StatusReport(as, now) ==
    LET ks == SortedKeys(KeysOf(as, "status", "Unknown"))
    IN  [title |-> "ASSET STATUS REPORT", generated |-> now,
         groups |-> [i \in DOMAIN ks |->
                        LET g == GroupOf(as, "status", "Unknown", ks[i])
                        IN  [status |-> ks[i], count |-> Len(g), assets |-> Members(g)]]]

\* variant: int() guarded apart, a warranty that is no number counting as 0
WarrantyRaises_date_only(a) == NoDate(Get(a, "acquisition_date", ""))

\* lines 859-873: the try block raises for this asset, which is passed over
WarrantyRaises(a) ==
    \/ NoDate(Get(a, "acquisition_date", ""))
    \/ (Get(a, "warranty", "") # "" /\ NoNumber(Get(a, "warranty", "")))

\* days_until_expiry of an asset (lines 860-864)
DaysUntilExpiry(a, now) ==
    LET warranty_months == IF Get(a, "warranty", "") = "" THEN 0
                           ELSE NumberOf(Get(a, "warranty", ""))
    IN  DaysUntil(PlusMonths(DateOf(Get(a, "acquisition_date", "")), warranty_months), now)

Expired(as, now) ==
    LET in(a) == ~WarrantyRaises(a) /\ DaysUntilExpiry(a, now) < 0
    IN  SelectSeq(as, in)

ExpiringSoon(as, now) ==
    LET in(a) == ~WarrantyRaises(a) /\ DaysUntilExpiry(a, now) >= 0
                    /\ DaysUntilExpiry(a, now) <= SoonDays
    IN  SelectSeq(as, in)

Valid(as, now) ==
    LET in(a) == ~WarrantyRaises(a) /\ DaysUntilExpiry(a, now) > SoonDays
    IN  SelectSeq(as, in)

\* abs(days)
Abs(n) == IF n < 0 THEN 0 - n ELSE n

WarrantyReport(as, now) ==
    IF as = <<>>
    THEN [title |-> "WARRANTY STATUS REPORT", generated |-> now, none_found |-> TRUE]
    ELSE [title |-> "WARRANTY STATUS REPORT", generated |-> now,
          valid |-> Len(Valid(as, now)),
          expiring_soon |-> Len(ExpiringSoon(as, now)),
          expired |-> Len(Expired(as, now)),
          expired_list |->
              [i \in DOMAIN Expired(as, now) |->
                  <<Get(Expired(as, now)[i], "name", "None"),
                    Abs(DaysUntilExpiry(Expired(as, now)[i], now))>>],
          expiring_list |->
              [i \in DOMAIN ExpiringSoon(as, now) |->
                  <<Get(ExpiringSoon(as, now)[i], "name", "None"),
                    DaysUntilExpiry(ExpiringSoon(as, now)[i], now)>>]]

CostReport(as, now) ==
    IF as = <<>>
    THEN [title |-> "COST ANALYSIS REPORT", generated |-> now, none_found |-> TRUE]
    ELSE LET ks == KeysOf(as, "type", "Unknown")
         IN  [title |-> "COST ANALYSIS REPORT", generated |-> now,
              total_assets |-> Len(as), total_cost |-> TotalCost(as),
              average_cost |-> Hundredths(TotalCost(as), Len(as)),
              cost_by_type |->
                  SortedByCost([i \in DOMAIN ks |->
                                   <<ks[i], TotalCost(GroupOf(as, "type", "Unknown", ks[i]))>>])]

\* a report that sorted self.assets itself, not a copy of it
WriteReport_reordering(op, raises, report) ==
    /\ assets' = [i \in 1..Len(assets) |-> assets[Len(assets) + 1 - i]]
    /\ UNCHANGED <<owners, data_file, owners_file, form, tree, selection, pc, faults>>
    /\ UNCHANGED <<new_owner_var, bundle_file, search_type_var, search_term_var, search_tree,
                   criteria, results_text, query_history>>
    /\ report_text' = IF raises THEN report_text ELSE <<report>>
    /\ last' = IF raises THEN Raised(op) ELSE Outcome(op, <<>>, "none", "none")

\* the end of every generate_*_report: report_text is replaced by the
\* report, unless the callback ended in an exception before
WriteReport(op, raises, report) ==
    /\ UNCHANGED <<assets, owners, data_file, owners_file, form, tree, selection, pc, faults>>
    /\ UNCHANGED <<new_owner_var, bundle_file, search_type_var, search_term_var, search_tree,
                   criteria, results_text, query_history>>
    /\ report_text' = IF raises THEN report_text ELSE <<report>>
    /\ last' = IF raises THEN Raised(op) ELSE Outcome(op, <<>>, "none", "none")

generate_summary_report ==
    /\ pc = "running"
    /\ \E now \in Instants :
          WriteReport("summary_report", TotalRaises(assets), SummaryReport(assets, now))

generate_owner_report ==
    /\ pc = "running"
    /\ \E now \in Instants :
          WriteReport("owner_report", TotalRaises(assets), OwnerReport(assets, now))

generate_status_report ==
    /\ pc = "running"
    /\ \E now \in Instants : WriteReport("status_report", FALSE, StatusReport(assets, now))

generate_warranty_report ==
    /\ pc = "running"
    /\ \E now \in Instants :
          WriteReport("warranty_report", FALSE, WarrantyReport(assets, now))

generate_cost_report ==
    /\ pc = "running"
    /\ \E now \in Instants :
          WriteReport("cost_report", TotalRaises(assets), CostReport(assets, now))

(* ---------------------------------------------------------------------- *)
(* Bundle import                                                           *)
(* ---------------------------------------------------------------------- *)
\* records a bundle file can carry: ids are whatever JSON the file holds
BundleRecord(id) ==
    [build_record_from_form(CHOOSE f \in TypedForms :
                                f.asset_id_var = "A1" /\ f.asset_name_var = "Pump")
        EXCEPT !.id = id]

BundleAssets ==
    {<<BundleRecord(Str("A1"))>>,
     <<BundleRecord(Num("7"))>>,
     <<BundleRecord(Str("A1")), BundleRecord(Str("A1"))>>}

BundleOwners == {<<[name |-> "Ann", created_date |-> "2026-01-13 09:00:00"]>>}

\* what the file dialog and the chosen file can be
BundleDocuments ==
    {[kind |-> k, has_assets |-> FALSE, assets |-> <<>>, has_owners |-> FALSE, owners |-> <<>>]
        : k \in {"cancel", "csv", "corrupt", "array"}}
    \cup {[kind |-> "object", has_assets |-> TRUE, assets |-> a, has_owners |-> TRUE, owners |-> o]
        : a \in BundleAssets, o \in BundleOwners}
    \cup {[kind |-> "object", has_assets |-> FALSE, assets |-> <<>>,
           has_owners |-> FALSE, owners |-> <<>>]}

\* bundle.get("assets", []) and bundle.get("owners", {})
BundleGet(doc, key) ==
    IF key = "assets" THEN (IF doc.has_assets THEN doc.assets ELSE <<>>)
    ELSE (IF doc.has_owners THEN doc.owners ELSE <<>>)

\* the bundle written by export_bundle_json (lines 1039-1043)
ExportedDocument_without_owners(as, os, now) ==
    [kind |-> "object", has_assets |-> TRUE, assets |-> as,
     has_owners |-> FALSE, owners |-> <<>>, export_date |-> now]

ExportedDocument(as, os, now) ==
    [kind |-> "object", has_assets |-> TRUE, assets |-> as,
     has_owners |-> TRUE, owners |-> os, export_date |-> now]

\* json.load of a file written by export_bundle_json: the one object it
\* holds, or no JSON at all when the dump was cut off
FileDocuments(file) ==
    IF ~file.exists THEN {}
    ELSE IF ~file.complete
         THEN {[kind |-> "corrupt", has_assets |-> FALSE, assets |-> <<>>,
                has_owners |-> FALSE, owners |-> <<>>]}
         ELSE {file.items[1]}

\* askopenfilename: cancelled, some other file, or the exported file
Pickable(file) ==
    {[file |-> IF d.kind = "cancel" THEN "" ELSE "other", doc |-> d] : d \in BundleDocuments}
    \cup {[file |-> "bundle", doc |-> d] : d \in FileDocuments(file)}

\* the outcome of a handler that read this file
From(file, outcome) == [outcome EXCEPT !.file = file]

\* an import that ends in an error dialog and changes nothing
ImportRejected(file, dialog) ==
    /\ last' = From(file, Outcome("import", <<dialog>>, "none", "none"))
    /\ UNCHANGED <<assets, owners, data_file, owners_file, form, tree, selection, pc, faults>>

import_bundle ==
    /\ pc = "running"
    /\ UNCHANGED elsewhere
    /\ \E pick \in Pickable(bundle_file) : LET doc == pick.doc IN
        CASE doc.kind = "cancel" ->
                /\ last' = Outcome("import", <<>>, "none", "none")
                /\ UNCHANGED <<assets, owners, data_file, owners_file, form, tree,
                               selection, pc, faults>>
          [] doc.kind = "csv" ->
                ImportRejected(pick.file,
                               "Error: CSV import not yet implemented for complex data")
          [] doc.kind \in {"corrupt", "array"} ->
                ImportRejected(pick.file, "Error: Failed to import data")
          [] OTHER ->
                LET newAssets == BundleGet(doc, "assets")
                    newOwners == BundleGet(doc, "owners")
                IN  \E io \in Possible(faults) : \E file \in Written(io, data_file, newAssets) :
                        /\ assets' = newAssets
                        /\ owners' = newOwners
                        /\ data_file' = file
                        /\ IF io = "crashed"
                           THEN /\ pc' = "stopped"
                                /\ faults' = faults + Fault(io)
                                /\ last' = From(pick.file, Outcome("import", <<>>, io, "none"))
                                /\ UNCHANGED <<owners_file, form, tree, selection>>
                           ELSE \E oio \in Possible(faults + Fault(io)) :
                                \E ofile \in Written(oio, owners_file, newOwners) :
                                    /\ owners_file' = ofile
                                    /\ faults' = faults + Fault(io) + Fault(oio)
                                    /\ UNCHANGED form
                                    /\ IF oio = "crashed"
                                       THEN /\ pc' = "stopped"
                                            /\ last' = From(pick.file,
                                                            Outcome("import", SaveDialogs(io),
                                                                    io, oio))
                                            /\ UNCHANGED <<tree, selection>>
                                       ELSE /\ tree' = refresh_tree(newAssets)
                                            /\ selection' = 0
                                            /\ last' = From(pick.file,
                                                            Outcome("import",
                                                                    SaveDialogs(io)
                                                                        \o SaveDialogs(oio)
                                                                        \o <<"Success">>,
                                                                    io, oio))
                                            /\ UNCHANGED pc

(* ---------------------------------------------------------------------- *)
(* Bundle export                                                           *)
(* ---------------------------------------------------------------------- *)
\* the dialog of export_bundle_json, by outcome of the open-and-dump
ExportDialogs(io) ==
    IF io = "ok" THEN <<"Success">> ELSE <<"Error: Failed to export data">>

export_bundle_json ==
    /\ pc = "running"
    /\ UNCHANGED <<assets, owners, data_file, owners_file, form, tree, selection>>
    /\ UNCHANGED <<new_owner_var, search_type_var, search_term_var, search_tree, criteria,
                   results_text, query_history, report_text>>
    /\ \E cancelled \in BOOLEAN :
          IF cancelled
          THEN /\ last' = Outcome("export", <<>>, "none", "none")
               /\ UNCHANGED <<bundle_file, pc, faults>>
          ELSE \E now \in Timestamps : \E io \in Possible(faults) :
               \E file \in Written(io, bundle_file, <<ExportedDocument(assets, owners, now)>>) :
                   /\ bundle_file' = file
                   /\ faults' = faults + Fault(io)
                   /\ IF io = "crashed"
                      THEN /\ pc' = "stopped"
                           /\ last' = From("bundle", Outcome("export", <<>>, "none", "none"))
                      ELSE /\ pc' = "running"
                           /\ last' = From("bundle",
                                           Outcome("export", ExportDialogs(io), "none", "none"))

(* ---------------------------------------------------------------------- *)
(* Start of the process: __init__ (after a crash, or after the window was  *)
(* closed)                                                                 *)
(* ---------------------------------------------------------------------- *)
Restart ==
    /\ assets' = Loaded(data_file)
    /\ owners' = Loaded(owners_file)
    /\ form' = EmptyForm
    /\ tree' = refresh_tree(Loaded(data_file))
    /\ selection' = 0
    /\ pc' = "running"
    /\ last' = Outcome("start", LoadDialogs(data_file) \o LoadDialogs(owners_file),
                       "none", "none")
    /\ new_owner_var' = ""
    /\ search_type_var' = ""
    /\ search_term_var' = ""
    /\ search_tree' = <<>>
    /\ criteria' = BlankCriteria
    /\ results_text' = <<>>
    /\ report_text' = <<>>
    /\ UNCHANGED <<data_file, owners_file, faults, bundle_file, query_history>>

Next ==
    \/ TypeForm
    \/ on_tree_select
    \/ add_asset
    \/ update_record
    \/ delete_asset
    \/ import_bundle
    \/ Restart

Spec == Init /\ [][Next]_vars

(* ---------------------------------------------------------------------- *)
(* The owner registry next to the asset form: first run, the asset form    *)
(* already filled in                                                       *)
(* ---------------------------------------------------------------------- *)
InitOwners ==
    /\ assets = <<>>
    /\ owners = <<>>
    /\ data_file = Absent
    /\ owners_file = Absent
    /\ form \in TypedForms
    /\ tree = refresh_tree(assets)
    /\ selection = 0
    /\ pc = "running"
    /\ faults = 0
    /\ last = Outcome("init", <<>>, "none", "none")
    /\ new_owner_var = ""
    /\ bundle_file = Absent
    /\ search_type_var = ""
    /\ search_term_var = ""
    /\ search_tree = <<>>
    /\ criteria = BlankCriteria
    /\ results_text = <<>>
    /\ query_history = <<>>
    /\ report_text = <<>>

NextOwners ==
    \/ TypeOwner
    \/ add_owner
    \/ remove_owner
    \/ on_tree_select
    \/ add_asset
    \/ update_record

SpecOwners == InitOwners /\ [][NextOwners]_vars

(* ---------------------------------------------------------------------- *)
(* The query tab on a stored collection                                    *)
(* ---------------------------------------------------------------------- *)
\* records the data file can hold: typed in with some fields left empty or
\* with a cost that is no number, or imported with a numeric id
QueryRecord(id, name, type, status, owner, location, cost, acquisition_date, warranty) ==
    [id |-> id, name |-> name, type |-> type, status |-> status, owner |-> owner,
     location |-> location, acquisition_date |-> acquisition_date, release_date |-> "",
     cost |-> cost, warranty |-> warranty, notes |-> ""]

R1 == QueryRecord(Str("A1"), "Pump", "Hardware", "Active", "Alice", "Lab", "500",
                  "2024-01-01", "12")

R2 == QueryRecord(Str("A2"), "Alice", "Software", "Inactive", "Bob", "Lab", "1500",
                  "2024-11-30", "3")

R3 == QueryRecord(Str("A3"), "Pump", "", "", "", "", "", "", "")

R4 == QueryRecord(Num("7"), "Pump", "Hardware", "Active", "Alice", "Lab", "500",
                  "2024-01-01", "12")

R5 == QueryRecord(Str("A5"), "Pump", "Hardware", "Active", "Alice", "Lab", "abc",
                  "2024-13-01", "abc")

QueryCollections ==
    {<<>>, <<R1>>, <<R3>>, <<R1, R2>>, <<R2, R1, R3>>, <<R1, R5>>, <<R2, R5>>, <<R4, R1>>}

\* the application started on a data file holding as, the query fields filled
Started(as, search_type, search_term, crit) ==
    /\ assets = as
    /\ owners = <<>>
    /\ data_file = Dump(as)
    /\ owners_file = Absent
    /\ form = EmptyForm
    /\ tree = refresh_tree(as)
    /\ selection = 0
    /\ pc = "running"
    /\ faults = 0
    /\ last = Outcome("init", <<>>, "none", "none")
    /\ new_owner_var = ""
    /\ bundle_file = Absent
    /\ search_type_var = search_type
    /\ search_term_var = search_term
    /\ search_tree = <<>>
    /\ criteria = crit
    /\ results_text = <<>>
    /\ query_history = <<>>
    /\ report_text = <<>>

InitSearch ==
    \E as \in QueryCollections, search_type \in SearchTypes, search_term \in SearchTerms :
        Started(as, search_type, search_term, BlankCriteria)

NextSearch == perform_search

SpecSearch == InitSearch /\ [][NextSearch]_vars

InitFilter ==
    \E as \in QueryCollections, crit \in Criteria : Started(as, "", "", crit)

NextFilter == execute_query

SpecFilter == InitFilter /\ [][NextFilter]_vars

\* both query modes and the five reports
QueryInputs ==
    {<<"Owner", "ali", BlankCriteria>>,
     <<"Asset ID", "7",
       [status_var |-> "Active", type_var |-> "All", owner_var |-> "All",
        min_cost_var |-> "500", max_cost_var |-> "abc"]>>,
     <<"", "ACT",
       [status_var |-> "All", type_var |-> "All", owner_var |-> "All",
        min_cost_var |-> "", max_cost_var |-> ""]>>}

InitQuery ==
    \E as \in QueryCollections, q \in QueryInputs : Started(as, q[1], q[2], q[3])

NextQuery ==
    \/ perform_search
    \/ execute_query
    \/ generate_summary_report
    \/ generate_owner_report
    \/ generate_status_report
    \/ generate_warranty_report
    \/ generate_cost_report

SpecQuery == InitQuery /\ [][NextQuery]_vars

(* ---------------------------------------------------------------------- *)
(* The reports tab: the application started on a data file, the five       *)
(* report buttons                                                          *)
(* ---------------------------------------------------------------------- *)
\* Software for 500, acquired on the last day of January, one month
R6 == QueryRecord(Str("A6"), "Bob", "Software", "Active", "Bob", "Lab", "500",
                  "2024-01-31", "1")

\* a date, no number of months
R7 == QueryRecord(Str("A7"), "Ann", "Hardware", "Inactive", "Ann", "Lab", "500",
                  "2024-01-01", "abc")

\* a number of months, no date of the calendar
R8 == QueryRecord(Str("A8"), "Ann", "Software", "Active", "Bob", "Lab", "1500",
                  "2024-13-01", "12")

\* a date and no warranty typed
R9 == QueryRecord(Str("A9"), "Lab", "Software", "Active", "", "Lab", "",
                  "2024-11-30", "")

\* a record of an imported bundle that has no "owner" key
R10 == [k \in (DOMAIN R1) \ {"owner"} |-> R1[k]]

ReportCollections ==
    {<<>>, <<R1>>, <<R3>>, <<R9>>, <<R1, R2>>, <<R1, R6>>, <<R6, R1>>, <<R6, R1, R2>>,
     <<R1, R6, R4>>, <<R2, R1, R3>>, <<R9, R2, R3>>, <<R1, R5>>, <<R2, R5, R1>>,
     <<R7, R2>>, <<R1, R8>>, <<R7, R8, R6>>, <<R10, R3, R1>>, <<R2, R10>>}

InitReports == \E as \in ReportCollections : Started(as, "", "", BlankCriteria)

NextReports ==
    \/ generate_summary_report
    \/ generate_owner_report
    \/ generate_status_report
    \/ generate_warranty_report
    \/ generate_cost_report

SpecReports == InitReports /\ [][NextReports]_vars

(* ---------------------------------------------------------------------- *)
(* Export and import of bundles: the application started on a data file,   *)
(* a name typed into the owner entry                                       *)
(* ---------------------------------------------------------------------- *)
InitBundle ==
    /\ assets \in {<<>>, <<R1>>, <<R2, R1, R3>>}
    /\ owners = <<>>
    /\ data_file = Dump(assets)
    /\ owners_file = Absent
    /\ form = EmptyForm
    /\ tree = refresh_tree(assets)
    /\ selection = 0
    /\ pc = "running"
    /\ faults = 0
    /\ last = Outcome("init", <<>>, "none", "none")
    /\ new_owner_var \in {"", "Bob"}
    /\ bundle_file = Absent
    /\ search_type_var = ""
    /\ search_term_var = ""
    /\ search_tree = <<>>
    /\ criteria = BlankCriteria
    /\ results_text = <<>>
    /\ query_history = <<>>
    /\ report_text = <<>>

NextBundle ==
    \/ export_bundle_json
    \/ import_bundle
    \/ add_owner

SpecBundle == InitBundle /\ [][NextBundle]_vars

\* the types of the state
TypeOK ==
    /\ Len(assets) <= MaxAssets
    /\ pc \in {"running", "stopped"}
    /\ faults \in 0..MaxFaults
    /\ selection \in 0..Len(tree)
    /\ pc = "running" => tree = refresh_tree(assets)

(* ---------------------------------------------------------------------- *)
(* Properties                                                              *)
(* ---------------------------------------------------------------------- *)
\* a dialog of the handler that has just run
ShownNext(d) == \E i \in DOMAIN last'.dialogs : last'.dialogs[i] = d

\* some record of the collection has exactly this id
IdPresent(as, id) == \E i \in DOMAIN as : as[i].id = id

\* the record carries, field by field, what the form holds (id apart)
MatchesForm(rec, f) ==
    /\ rec.name = f.asset_name_var
    /\ rec.type = f.asset_type_var
    /\ rec.status = f.status_var
    /\ rec.owner = f.owner_var
    /\ rec.location = f.location_var
    /\ rec.acquisition_date = f.acquisition_date_var
    /\ rec.release_date = f.release_date
    /\ rec.cost = f.cost_var
    /\ rec.warranty = f.warranty_var
    /\ rec.notes = f.notes_var

AssetMutators == {"add", "update", "delete"}

\* C1: no two assets of the in-memory collection have the same id, in any
\* state reachable through add, update, delete, bundle import and load.
C1_UniqueIds ==
    \A i, j \in DOMAIN assets : i # j => assets[i].id # assets[j].id

\* C2: when the save fails during a mutating operation, the in-memory
\* collection is rolled back to what it was before the operation and the
\* operation does not report success.
C2_RollbackOnSaveFailure ==
    [][(last'.op \in AssetMutators /\ last'.save \in {"open_failed", "write_failed"})
          => (assets' = assets /\ ~ShownNext("Success"))]_vars

\* C3: whenever add, update or delete has reported success, the persisted
\* asset sequence equals the in-memory asset sequence.
C3_PersistedOnSuccess ==
    (last.op \in AssetMutators /\ Shown("Success"))
        => (Parses(data_file) /\ data_file.items = assets)

\* C4: if the process stops during save_data or save_owners, the file holds
\* either the complete previous collection or the complete new one.
C4_CrashLeavesCompleteFile ==
    [][(last'.save = "crashed" \/ last'.save_owners = "crashed")
          => (/\ data_file' \in {data_file, Dump(assets')}
              /\ owners_file' \in {owners_file, Dump(owners')})]_vars

\* C5: create with an id that some record already has (exact, case-sensitive
\* match) fails and leaves the in-memory collection and the persisted
\* collection as they were.
C5_DuplicateCreateRejected ==
    [][(last'.op = "add" /\ IdPresent(assets, Str(form.asset_id_var)))
          => (/\ last'.dialogs \in {<<"Error: Asset ID already exists">>,
                                    <<"Error: Asset ID and Name are required">>}
              /\ last'.save = "none"
              /\ assets' = assets
              /\ data_file' = data_file)]_vars

\* a create was rejected because the id is already in the collection
C5_Witness ==
    /\ last.op = "add"
    /\ last.dialogs = <<"Error: Asset ID already exists">>
    /\ IdPresent(assets, Str(form.asset_id_var))

\* C6: create with an empty id or an empty name is rejected with a
\* validation error: nothing is appended and no save is performed.
C6_EmptyIdOrNameRejected ==
    [][(last'.op = "add" /\ (form.asset_id_var = "" \/ form.asset_name_var = ""))
          => (/\ last'.dialogs = <<"Error: Asset ID and Name are required">>
              /\ last'.save = "none"
              /\ assets' = assets
              /\ data_file' = data_file)]_vars

\* a create with an id but no name was rejected
C6_Witness ==
    /\ last.op = "add"
    /\ last.dialogs = <<"Error: Asset ID and Name are required">>
    /\ form.asset_id_var # ""
    /\ form.asset_name_var = ""

\* C7: a delete that is carried out on a present id leaves no record that
\* findById returns for it; on an id that no record has it fails (no success
\* is reported, nothing is saved) and leaves the collection unchanged.
C7_DeleteOrNotFound ==
    [][(last'.op = "delete" /\ selection # 0 /\ last'.dialogs # <<>>)
          => IF IdPresent(assets, SelectedId)
             THEN FindById(assets', SelectedId) = <<>>
             ELSE /\ ~ShownNext("Success")
                  /\ last'.save = "none"
                  /\ assets' = assets]_vars

\* where update_record looks: the first record whose id is the selected id
TargetOfUpdate(p) ==
    /\ p \in DOMAIN assets
    /\ assets[p].id = SelectedId
    /\ \A q \in 1..(p - 1) : assets[q].id # SelectedId

\* C8: update replaces every field of the record with the selected id except
\* the id: the number of records and the id at every position are unchanged,
\* the updated record keeps its id whatever id the form carries, and update
\* on an id that no record has fails with "Asset not found" and changes
\* neither the collection nor the file.
C8_UpdateKeepsIds ==
    [][(last'.op = "update" /\ selection # 0)
          => /\ Len(assets') = Len(assets)
             /\ \A i \in DOMAIN assets : assets'[i].id = assets[i].id
             /\ IF IdPresent(assets, SelectedId)
                THEN \E p \in DOMAIN assets :
                        /\ TargetOfUpdate(p)
                        /\ MatchesForm(assets'[p], form)
                        /\ \A q \in DOMAIN assets : q # p => assets'[q] = assets[q]
                ELSE /\ last'.dialogs = <<"Error: Asset not found">>
                     /\ last'.save = "none"
                     /\ assets' = assets
                     /\ data_file' = data_file]_vars

\* an update has replaced the name of a record by the empty name of the form
C8_Witness ==
    /\ last.op = "update"
    /\ Shown("Success")
    /\ \E i \in DOMAIN assets : assets[i].name = "" /\ assets[i].id \in {Str("A1"), Str("a1")}

\* an update was refused because no record has the id of the selected row
C8_NotFoundReached ==
    /\ last.op = "update"
    /\ last.dialogs = <<"Error: Asset not found">>
    /\ assets # <<>>

\* the records of the collection that do not have the selected id, in order
OthersInOrder ==
    LET Keep(a) == a.id # SelectedId
    IN  SelectSeq(assets, Keep)

C10_CreateThenFind ==
    [][(/\ last'.op = "add"
        /\ form.asset_id_var # ""
        /\ form.asset_name_var # ""
        /\ ~IdPresent(assets, Str(form.asset_id_var)))
          => LET found == FindById(assets', Str(form.asset_id_var))
             IN  /\ found # <<>>
                 /\ found[1].id = Str(form.asset_id_var)
                 /\ MatchesForm(found[1], form)
                 /\ load_selected_record(found[1]) = form]_vars

\* an asset was added while another id differing only in case was present
C10_Witness ==
    /\ last.op = "add"
    /\ Shown("Success")
    /\ pc = "running"
    /\ IdPresent(assets, Str("A1"))
    /\ IdPresent(assets, Str("a1"))

\* C11: a load from a file that is absent or that cannot be parsed yields the
\* empty collection, whatever was held before, and the application runs on;
\* the absent file raises no error dialog, the unparsable one raises one.
C11_LoadAbsentOrCorrupt ==
    [][last'.op = "start"
          => (/\ pc' = "running"
              /\ ~Parses(data_file) => (assets' = <<>> /\ tree' = <<>>)
              /\ ~Parses(owners_file) => owners' = <<>>
              /\ ~data_file.exists /\ ~owners_file.exists => last'.dialogs = <<>>
              /\ (data_file.exists /\ ~Parses(data_file)) => ShownNext("Load Error"))]_vars

\* the application has started on a data file cut short by a failed save
C11_Witness ==
    /\ last.op = "start"
    /\ Shown("Load Error")
    /\ data_file = Truncated
    /\ assets = <<>>
    /\ pc = "running"

\* n blanks
Blanks(n) == [i \in 1..n |-> " "]

\* name is what is left of typed when the blanks at both ends are taken away
IsTrimOf(name, typed) ==
    /\ \E i, j \in 0..Len(Chars(typed)) :
            Chars(typed) = Blanks(i) \o Chars(name) \o Blanks(j)
    /\ Chars(name) # <<>> => (Head(Chars(name)) # " " /\ Chars(name)[Len(Chars(name))] # " ")

\* the registry has an entry with this name
Registered(os, name) == \E i \in DOMAIN os : os[i].name = name

\* C12: add_owner refuses a name that is blank once trimmed and a name the
\* registry already has, leaving the registry and the owners file as they
\* were; otherwise it adds exactly one entry, keyed by the trimmed name;
\* no two entries of the registry ever have the same name.
C12_AddOwner ==
    /\ [](\A i, j \in DOMAIN owners : i # j => owners[i].name # owners[j].name)
    /\ [][last'.op = "add_owner"
            => \E name \in {p[1] : p \in Spelling} :
                  /\ IsTrimOf(name, new_owner_var)
                  /\ IF name = "" \/ Registered(owners, name)
                     THEN /\ owners' = owners
                          /\ owners_file' = owners_file
                          /\ last'.save_owners = "none"
                          /\ ~ShownNext("Success")
                          /\ Len(last'.dialogs) = 1
                     ELSE /\ Len(owners') = Len(owners) + 1
                          /\ SubSeq(owners', 1, Len(owners)) = owners
                          /\ owners'[Len(owners')].name = name]_vars

\* " Ann " was added as "Ann" next to "Bob"
C12_Witness ==
    /\ last.op = "add_owner"
    /\ Shown("Success")
    /\ Len(owners) = 2
    /\ owners[2].name = "Ann"
    /\ owners[1].name = "Bob"

\* C13: remove_owner changes nothing but the registry (and its file): every
\* asset, also one whose owner field names the removed owner, is left as it
\* was; add_asset and update_record accept a form whose owner is not in the
\* registry.
C13_OwnerNotEnforced ==
    [][/\ last'.op = "remove_owner"
            => (assets' = assets /\ data_file' = data_file /\ tree' = tree)
       /\ (/\ last'.op = "add"
           /\ ~Registered(owners, form.owner_var)
           /\ form.asset_id_var # ""
           /\ form.asset_name_var # ""
           /\ ~IdPresent(assets, Str(form.asset_id_var)))
            => (/\ last'.save # "none"
                /\ Len(assets') = Len(assets) + 1
                /\ assets'[Len(assets')].owner = form.owner_var)
       /\ (/\ last'.op = "update"
           /\ ~Registered(owners, form.owner_var)
           /\ selection # 0
           /\ IdPresent(assets, SelectedId))
            => (/\ last'.save # "none"
                /\ \E p \in DOMAIN assets :
                      TargetOfUpdate(p) /\ assets'[p].owner = form.owner_var)]_vars

\* owner "Ann" was removed while an asset names "Ann" as its owner
C13_Witness ==
    /\ last.op = "remove_owner"
    /\ Shown("Success")
    /\ ~Registered(owners, "Ann")
    /\ \E i \in DOMAIN assets : assets[i].owner = "Ann"

\* an asset was added, and one updated, with an owner the registry lacks
C13_UnregisteredAccepted ==
    /\ last.op \in {"add", "update"}
    /\ Shown("Success")
    /\ \E i \in DOMAIN assets : ~Registered(owners, assets[i].owner)

RecognisedSearchTypes ==
    {"Asset ID", "Asset Name", "Owner", "Status", "Location", "Asset Type"}

\* C14: a simple search with an empty term, or with a field that is none of
\* id, name, owner, status, location and type, ends in the validation error
\* and never in a result dialog.
C14_SearchValidation ==
    [][(/\ last'.op = "search"
        /\ (search_term_var = "" \/ search_type_var \notin RecognisedSearchTypes))
          => (/\ last'.dialogs =
                    <<"Error: Please select search type and enter search term">>
              /\ search_tree' = search_tree
              /\ query_history' = query_history)]_vars

\* the field of the record the search type names, lower-cased
FieldLowered(asset, search_type) ==
    LET key == CHOOSE k \in {"id", "name", "owner", "status", "location", "type"} :
                  \/ (search_type = "Asset ID" /\ k = "id")
                  \/ (search_type = "Asset Name" /\ k = "name")
                  \/ (search_type = "Owner" /\ k = "owner")
                  \/ (search_type = "Status" /\ k = "status")
                  \/ (search_type = "Location" /\ k = "location")
                  \/ (search_type = "Asset Type" /\ k = "type")
        value == IF key = "id" THEN asset.id.text ELSE asset[key]
    IN  LowerChars(Chars(value))

\* the assets a search has to show, in collection order
Expected(search_type, search_term) ==
    LET hit(a) == Contains(LowerChars(Chars(search_term)), FieldLowered(a, search_type))
    IN  SelectSeq(assets, hit)

\* C15: a simple search on a recognised field with a term that is not empty
\* shows exactly the assets, in collection order, whose value of that field
\* contains the term, both taken in lower case.
C15_SearchResults ==
    [][(/\ last'.op = "search"
        /\ search_term_var # ""
        /\ search_type_var \in RecognisedSearchTypes)
          => (/\ last'.dialogs = <<"Search Results">>
              /\ search_tree' =
                    [i \in 1..Len(Expected(search_type_var, search_term_var)) |->
                        SearchRow(Expected(search_type_var, search_term_var)[i])])]_vars

\* C15 on the collections whose ids are all strings
C15_SearchResultsOnStrIds ==
    [][(/\ last'.op = "search"
        /\ search_term_var # ""
        /\ search_type_var \in RecognisedSearchTypes
        /\ \A i \in DOMAIN assets : assets[i].id.json = "string")
          => (/\ last'.dialogs = <<"Search Results">>
              /\ search_tree' =
                    [i \in 1..Len(Expected(search_type_var, search_term_var)) |->
                        SearchRow(Expected(search_type_var, search_term_var)[i])])]_vars

\* a cost entry that holds a number
IsBound(text) == text # "" /\ \A i \in DOMAIN Chars(text) : IsDigit(Chars(text)[i])

\* a criterion of the three lists that narrows the result
Narrows(wanted) == wanted \notin {"All", ""}

\* the cost of a record, 0 when the text is empty or no number
LenientCost(a) ==
    IF a.cost # "" /\ \A i \in DOMAIN Chars(a.cost) : IsDigit(Chars(a.cost)[i])
    THEN DecimalValue(Chars(a.cost))
    ELSE 0

\* the record satisfies every criterion that is present
Satisfies(a, crit) ==
    /\ Narrows(crit.status_var) => a.status = crit.status_var
    /\ Narrows(crit.type_var) => a.type = crit.type_var
    /\ Narrows(crit.owner_var) => a.owner = crit.owner_var
    /\ IsBound(crit.min_cost_var) => LenientCost(a) >= DecimalValue(Chars(crit.min_cost_var))
    /\ IsBound(crit.max_cost_var) => LenientCost(a) <= DecimalValue(Chars(crit.max_cost_var))

\* the assets of the collection that satisfy the criteria, in order
Selected(crit) ==
    LET ok(a) == Satisfies(a, crit)
    IN  SelectSeq(assets, ok)

\* the assets the result window lists: their ids, in order
ListedIds(text) == [i \in 1..(Len(text) - 1) |-> text[i + 1][1]]

IdsOf(as) == [i \in DOMAIN as |-> TclText(as[i].id)]

\* C16: the advanced query lists, in collection order, exactly the assets
\* that satisfy all present criteria: status, type and owner by exact match
\* unless "All" or left empty, the cost within [min, max], bounds included.
C16_FilterResults ==
    [][last'.op = "advanced_query"
          => (/\ Len(results_text') = Len(Selected(criteria)) + 1
              /\ results_text'[1].found = Len(Selected(criteria))
              /\ ListedIds(results_text') = IdsOf(Selected(criteria)))]_vars

\* C16 for criteria that are "All" or a value, on records whose cost is
\* empty or a number
C16_FilterResultsOnChosenCriteria ==
    [][(/\ last'.op = "advanced_query"
        /\ criteria.status_var # ""
        /\ criteria.type_var # ""
        /\ criteria.owner_var # ""
        /\ \A i \in DOMAIN assets : ~CostRaises(assets[i]))
          => (/\ results_text'[1].found = Len(Selected(criteria))
              /\ ListedIds(results_text') = IdsOf(Selected(criteria)))]_vars

\* the costs the result window lists that are numbers
ListedCosts(text) ==
    {DecimalValue(Chars(text[i][7])) : i \in {j \in 2..Len(text) : IsBound(text[j][7])}}

\* C17: a cost bound whose text is no number is ignored, and only that
\* bound: the query completes with the result it has without that bound,
\* and a bound whose text is a number is applied to every listed asset.
C17_MalformedBoundOnly ==
    [][last'.op = "advanced_query"
          => (/\ results_text' # <<>>
              /\ (criteria.min_cost_var # "" /\ ~IsBound(criteria.min_cost_var))
                    => results_text' =
                         ResultLines(Filtered(assets, [criteria EXCEPT !.min_cost_var = ""]))
              /\ (criteria.max_cost_var # "" /\ ~IsBound(criteria.max_cost_var))
                    => results_text' =
                         ResultLines(Filtered(assets, [criteria EXCEPT !.max_cost_var = ""]))
              /\ IsBound(criteria.min_cost_var)
                    => \A c \in ListedCosts(results_text') :
                          c >= DecimalValue(Chars(criteria.min_cost_var))
              /\ IsBound(criteria.max_cost_var)
                    => \A c \in ListedCosts(results_text') :
                          c <= DecimalValue(Chars(criteria.max_cost_var)))]_vars

\* the log rows a search of the present fields has to add
SearchEntry(count) ==
    [query_type |-> "Search",
     query_params |-> [type |-> search_type_var,
                       term |-> Text(LowerChars(Chars(search_term_var)))],
     results |-> ToString(count)]

\* the log row an advanced query of the present criteria has to add
FilterEntry(count) ==
    [query_type |-> "AdvancedQuery", query_params |-> criteria, results |-> ToString(count)]

\* C18: every simple search and every advanced query that is executed shows
\* its result and adds exactly one row to query_history, with the mode, the
\* parameters and the number of results shown; when the insert fails the
\* query shows its result all the same and the log is as it was.
C18_OneLogEntryPerQuery ==
    [][/\ (last'.op = "search" /\ search_type_var # "" /\ search_term_var # "")
            => (/\ last'.dialogs = <<"Search Results">>
                /\ query_history' =
                      IF last'.printed = <<>>
                      THEN Append(query_history, SearchEntry(Len(search_tree')))
                      ELSE query_history)
       /\ last'.op = "advanced_query"
            => (/\ results_text' # <<>>
                /\ query_history' =
                      IF last'.printed = <<>>
                      THEN Append(query_history, FilterEntry(results_text'[1].found))
                      ELSE query_history)]_vars

\* C18 for the simple search on collections whose ids are all strings
C18_SearchLogged ==
    [][(/\ last'.op = "search"
        /\ search_type_var # ""
        /\ search_term_var # ""
        /\ \A i \in DOMAIN assets : assets[i].id.json = "string")
          => (/\ last'.dialogs = <<"Search Results">>
              /\ query_history' =
                    IF last'.printed = <<>>
                    THEN Append(query_history, SearchEntry(Len(search_tree')))
                    ELSE query_history)]_vars

QueryOps ==
    {"search", "advanced_query", "summary_report", "owner_report", "status_report",
     "warranty_report", "cost_report"}

\* C19: simple search, advanced query and the five reports leave the asset
\* collection, the owner registry and both files as they were.
C19_QueriesChangeNothing ==
    [][last'.op \in QueryOps
          => (/\ assets' = assets
              /\ owners' = owners
              /\ data_file' = data_file
              /\ owners_file' = owners_file)]_vars

\* a search, an advanced query and a report have shown results of a
\* collection of three assets, which is still what the data file holds
C19_Witness ==
    /\ last.op \in QueryOps
    /\ Len(assets) = 3
    /\ search_tree # <<>>
    /\ Len(results_text) > 1
    /\ report_text # <<>>
    /\ query_history # <<>>
    /\ data_file = Dump(assets)

\* C20: a bundle export writes the assets and the owners as they are held,
\* and an import of the exported document makes them the assets (same
\* records, same order) and the owners in memory and in both files.
C20_ExportImportRoundTrip ==
    [][/\ (last'.op = "export" /\ last'.dialogs = <<"Success">>)
            => (/\ Parses(bundle_file')
                /\ BundleGet(bundle_file'.items[1], "assets") = assets
                /\ BundleGet(bundle_file'.items[1], "owners") = owners)
       /\ (last'.op = "import" /\ last'.file = "bundle" /\ Parses(bundle_file)
                /\ pc' = "running")
            => (/\ assets' = bundle_file.items[1].assets
                /\ owners' = bundle_file.items[1].owners
                /\ data_file' = Dump(bundle_file.items[1].assets)
                /\ owners_file' = Dump(bundle_file.items[1].owners))]_vars

\* C20 in memory, and in the files whose save went through
C20_RoundTripWhenSaved ==
    [][/\ (last'.op = "export" /\ last'.dialogs = <<"Success">>)
            => (/\ Parses(bundle_file')
                /\ BundleGet(bundle_file'.items[1], "assets") = assets
                /\ BundleGet(bundle_file'.items[1], "owners") = owners)
       /\ (last'.op = "import" /\ last'.file = "bundle" /\ Parses(bundle_file)
                /\ pc' = "running")
            => (/\ assets' = bundle_file.items[1].assets
                /\ owners' = bundle_file.items[1].owners
                /\ last'.save = "ok" => data_file' = Dump(bundle_file.items[1].assets)
                /\ last'.save_owners = "ok"
                      => owners_file' = Dump(bundle_file.items[1].owners))]_vars

\* three assets and an owner were exported, another bundle was imported, and
\* the import of the exported file has brought the three and the owner back
C20_RoundTripReached ==
    /\ last.op = "import"
    /\ last.file = "bundle"
    /\ Shown("Success")
    /\ assets = <<R2, R1, R3>>
    /\ owners # <<>>
    /\ owners[1].name = "Bob"
    /\ data_file = Dump(assets)
    /\ owners_file = Dump(owners)

(* ---------------------------------------------------------------------- *)
(* The reports                                                             *)
(* ---------------------------------------------------------------------- *)
\* the number of calendar days from the day today to the day the acquisition
\* date plus the warranty months falls on
CalendarDays(a, today) ==
    LET months == IF Get(a, "warranty", "") = "" THEN 0
                  ELSE NumberOf(Get(a, "warranty", ""))
    IN  Ordinal(PlusMonths(DateOf(Get(a, "acquisition_date", "")), months)) - Ordinal(today)

\* the assets with a date and a number of months whose calendar days satisfy
\* the test, in collection order
Bucket(as, today, Test(_)) ==
    LET in(a) == ~WarrantyRaises(a) /\ Test(CalendarDays(a, today))
    IN  SelectSeq(as, in)

\* the report puts every asset in the bucket of its calendar days and lists
\* the days overdue and the days remaining
BucketsByCalendarDays(as, rep) ==
    LET today == rep.generated.date
        Overdue(d) == d < 0
        Soon(d) == 0 <= d /\ d <= 90
        Later(d) == d > 90
        expired == Bucket(as, today, Overdue)
        soon == Bucket(as, today, Soon)
    IN  /\ rep.expired = Len(expired)
        /\ rep.expiring_soon = Len(soon)
        /\ rep.valid = Len(Bucket(as, today, Later))
        /\ rep.expired_list =
              [i \in DOMAIN expired |->
                  <<Get(expired[i], "name", "None"), 0 - CalendarDays(expired[i], today)>>]
        /\ rep.expiring_list =
              [i \in DOMAIN soon |->
                  <<Get(soon[i], "name", "None"), CalendarDays(soon[i], today)>>]
        /\ \A i \in DOMAIN as :
              (/\ Get(as[i], "acquisition_date", "") = "2024-01-01"
               /\ Get(as[i], "warranty", "") = "12"
               /\ today = <<2025, 1, 15>>)
                 => \E j \in DOMAIN rep.expired_list :
                        rep.expired_list[j] = <<Get(as[i], "name", "None"), 14>>

\* C21: the Warranty Report takes the calendar days from today's date to the
\* acquisition date plus the warranty months, puts the asset in Expired
\* below 0, in ExpiringSoon from 0 to 90 and in Valid above; acquired on
\* 2024-01-01 with 12 months, on 2025-01-15 at any time of the day an asset
\* is Expired, 14 days overdue.
C21_WarrantyBuckets ==
    [][(last'.op = "warranty_report" /\ assets # <<>>)
          => BucketsByCalendarDays(assets, report_text'[1])]_vars

\* C21 for a report generated at midnight exactly
C21_WarrantyBucketsAtMidnight ==
    [][(last'.op = "warranty_report" /\ assets # <<>>
            /\ report_text'[1].generated.midnight)
          => BucketsByCalendarDays(assets, report_text'[1])]_vars

\* the report of a handler that ran to its end
Reported(op) == last'.op = op /\ last'.printed = <<>>

\* the type a report reads from an asset
TypeOf(a) == Get(a, "type", "Unknown")

\* the place of the first asset of this type
FirstOfType(as, t) == CHOOSE i \in DOMAIN as : TypeOf(as[i]) = t /\ \A j \in 1..(i - 1) : TypeOf(as[j]) # t

\* the sum of the costs of the assets of this type, an empty cost being 0
RECURSIVE SumOfType(_, _)
SumOfType(as, t) ==
    IF as = <<>> THEN 0
    ELSE SumOfType(Tail(as), t)
            + (IF TypeOf(Head(as)) = t /\ Get(Head(as), "cost", "") # ""
               THEN NumberOf(Get(Head(as), "cost", "")) ELSE 0)

\* C22: Cost Analysis lists every type once with its summed cost, by falling
\* summed cost, types of equal summed cost in the order of their first
\* occurrence in the collection; Hardware totalling 500 and Software
\* totalling 1500 are listed Software first.
C22_CostByTypeOrder ==
    [][(Reported("cost_report") /\ assets # <<>>)
          => LET list == report_text'[1].cost_by_type
             IN  /\ {list[i][1] : i \in DOMAIN list} = {TypeOf(assets[i]) : i \in DOMAIN assets}
                 /\ \A i \in DOMAIN list : list[i][2] = SumOfType(assets, list[i][1])
                 /\ \A i, j \in DOMAIN list :
                       i < j => \/ list[i][2] > list[j][2]
                                \/ /\ list[i][2] = list[j][2]
                                   /\ FirstOfType(assets, list[i][1])
                                         < FirstOfType(assets, list[j][1])
                 /\ \A i, j \in DOMAIN list :
                       (list[i] = <<"Hardware", 500>> /\ list[j] = <<"Software", 1500>>)
                          => j < i]_vars

\* Cost Analysis of Hardware for 500 followed by Software for 1500
C22_SoftwareFirst ==
    /\ last.op = "cost_report"
    /\ assets = <<R1, R2>>
    /\ report_text # <<>>
    /\ report_text[1].title = "COST ANALYSIS REPORT"
    /\ report_text[1].cost_by_type = <<<<"Software", 1500>>, <<"Hardware", 500>>>>

\* C23: Cost Analysis on the empty collection completes without a division
\* by zero and gives an average cost of 0, not an error.
C23_EmptyAverageZero ==
    [][(last'.op = "cost_report" /\ assets = <<>>)
          => (/\ last'.printed = <<>>
              /\ report_text' # <<>>
              /\ report_text'[1].title = "COST ANALYSIS REPORT"
              /\ "average_cost" \in DOMAIN report_text'[1]
              /\ report_text'[1].average_cost = 0)]_vars

\* C23 without the average: the handler runs to its end and the report
\* says that there are no assets
C23_EmptyCostReportCompletes ==
    [][(last'.op = "cost_report" /\ assets = <<>>)
          => (/\ last'.printed = <<>>
              /\ report_text' # <<>>
              /\ report_text'[1].title = "COST ANALYSIS REPORT"
              /\ report_text'[1].none_found)]_vars

\* the sum of the costs, a cost that is empty or no number being 0
RECURSIVE LenientTotal(_)
LenientTotal(as) == IF as = <<>> THEN 0 ELSE LenientCost(Head(as)) + LenientTotal(Tail(as))

\* the handler ran to its end and wrote the report of this title
Completed(title) ==
    /\ last'.printed = <<>>
    /\ report_text' # <<>>
    /\ report_text'[1].title = title

\* the assets left by the three lists of the query whose cost, empty and
\* malformed being 0, is within the bounds that are numbers
WithinBounds(as, crit) ==
    LET in(a) ==
            /\ IsBound(crit.min_cost_var)
                  => LenientCost(a) >= DecimalValue(Chars(crit.min_cost_var))
            /\ IsBound(crit.max_cost_var)
                  => LenientCost(a) <= DecimalValue(Chars(crit.max_cost_var))
    IN  SelectSeq(ExactMatch(ExactMatch(ExactMatch(as, "status", crit.status_var),
                                        "type", crit.type_var),
                             "owner", crit.owner_var), in)

\* every aggregation and the cost comparison of the query take a cost that
\* is empty or no number as 0, and complete
CostsAsZero ==
    /\ (last'.op = "summary_report" /\ assets # <<>>)
          => (/\ Completed("ASSET SUMMARY REPORT")
              /\ report_text'[1].total_cost = LenientTotal(assets))
    /\ last'.op = "owner_report"
          => (/\ Completed("OWNER DISTRIBUTION REPORT")
              /\ \A i \in DOMAIN report_text'[1].groups :
                    LET g == report_text'[1].groups[i]
                    IN  g.total_cost
                          = LenientTotal(GroupOf(assets, "owner", "Unassigned", g.owner)))
    /\ (last'.op = "cost_report" /\ assets # <<>>)
          => (/\ Completed("COST ANALYSIS REPORT")
              /\ report_text'[1].total_cost = LenientTotal(assets)
              /\ \A i \in DOMAIN report_text'[1].cost_by_type :
                    LET p == report_text'[1].cost_by_type[i]
                    IN  p[2] = LenientTotal(GroupOf(assets, "type", "Unknown", p[1])))
    /\ last'.op = "advanced_query"
          => (/\ results_text' # <<>>
              /\ ListedIds(results_text') = IdsOf(WithinBounds(assets, criteria)))

\* C24: the Summary total, the per-owner totals of Owner Distribution, the
\* total and the cost-by-type of Cost Analysis and the cost comparison of
\* the advanced query take a cost that is empty or not a number as 0: the
\* operation completes and gives the sum over the costs that are numbers.
C24_MalformedCostIsZero == [][CostsAsZero]_vars

\* C24 on collections whose costs are empty or numbers
C24_EmptyCostIsZero ==
    [][(\A i \in DOMAIN assets : ~CostRaises(assets[i])) => CostsAsZero]_vars

\* the acquisition date is a date of the calendar and the warranty is a
\* whole number of months (none typed being 0 months)
WarrantyParsable(a) ==
    /\ ~NoDate(Get(a, "acquisition_date", ""))
    /\ \/ Get(a, "warranty", "") = ""
       \/ AllDigits(Chars(Get(a, "warranty", "")))

WithWarrantyData(as) == SelectSeq(as, WarrantyParsable)

\* C25: the Warranty Report passes over an asset whose acquisition date or
\* warranty months cannot be parsed: it raises no error, the three counts
\* add up to the number of assets with parsable data, and the counts and
\* the lists are those of the collection without the unparsable assets.
C25_UnparsableSkipped ==
    [][(last'.op = "warranty_report" /\ assets # <<>>)
          => LET rep == report_text'[1]
                 rest == WithWarrantyData(assets)
                 alone == WarrantyReport(rest, rep.generated)
             IN  /\ Completed("WARRANTY STATUS REPORT")
                 /\ rep.valid + rep.expiring_soon + rep.expired = Len(rest)
                 /\ Len(rep.expired_list) = rep.expired
                 /\ Len(rep.expiring_list) = rep.expiring_soon
                 /\ rest # <<>>
                       => (/\ rep.valid = alone.valid
                           /\ rep.expiring_soon = alone.expiring_soon
                           /\ rep.expired = alone.expired
                           /\ rep.expired_list = alone.expired_list
                           /\ rep.expiring_list = alone.expiring_list)]_vars

\* a Warranty Report of three assets, one without a number of months and
\* one without a date of the calendar, has counted the third only
C25_OneOfThreeCounted ==
    /\ last.op = "warranty_report"
    /\ last.printed = <<>>
    /\ assets = <<R7, R8, R6>>
    /\ report_text # <<>>
    /\ report_text[1].title = "WARRANTY STATUS REPORT"
    /\ report_text[1].valid + report_text[1].expiring_soon + report_text[1].expired = 1

\* the key of the group of an asset: its owner, "Unassigned" when the owner
\* is blank or missing
OwnerGroupKey(a) ==
    IF Get(a, "owner", "") = "" THEN "Unassigned" ELSE Get(a, "owner", "")

\* the report has one group for every key, by owner name, each with the
\* assets of that key in collection order
GroupedByOwner ==
    LET groups == report_text'[1].groups
    IN  /\ {groups[i].owner : i \in DOMAIN groups}
              = {OwnerGroupKey(assets[i]) : i \in DOMAIN assets}
        /\ \A i, j \in DOMAIN groups : i < j => Before(groups[i].owner, groups[j].owner)
        /\ \A i \in DOMAIN groups :
              LET in(a) == OwnerGroupKey(a) = groups[i].owner
                  members == SelectSeq(assets, in)
              IN  /\ groups[i].total_assets = Len(members)
                  /\ groups[i].assets = Members(members)

\* C26: Owner Distribution puts every asset in exactly one group keyed by
\* its owner, the assets with a blank owner under the key "Unassigned"; each
\* group lists its members in collection order and the groups are ordered
\* by owner name.
C26_OwnerGroups ==
    [][last'.op = "owner_report"
          => (Completed("OWNER DISTRIBUTION REPORT") /\ GroupedByOwner)]_vars

\* C26 on collections in which no owner is the empty text and every cost is
\* empty or a number
C26_OwnerGroupsOfNamedOwners ==
    [][(/\ last'.op = "owner_report"
        /\ \A i \in DOMAIN assets :
              Get(assets[i], "owner", "Unassigned") # "" /\ ~CostRaises(assets[i]))
          => (Completed("OWNER DISTRIBUTION REPORT") /\ GroupedByOwner)]_vars

(* ---------------------------------------------------------------------- *)
(* Bundle import                                                           *)
(* ---------------------------------------------------------------------- *)
\* the documents an import can take for a bundle object
BundleObjects ==
    {d \in BundleDocuments \cup FileDocuments(bundle_file) : d.kind = "object"}

\* the assets and the owners are those of one bundle, nothing else
Replaced ==
    \E d \in BundleObjects :
        /\ assets' = (IF d.has_assets THEN d.assets ELSE <<>>)
        /\ owners' = (IF d.has_owners THEN d.owners ELSE <<>>)

\* the import ended in one of its two error dialogs
ImportRefused ==
    \/ ShownNext("Error: CSV import not yet implemented for complex data")
    \/ ShownNext("Error: Failed to import data")

\* C27: a successful import of a JSON bundle replaces the state: the assets
\* are the bundle's "assets" (none when the key is missing), the owners are
\* the bundle's "owners" (none when missing), nothing held before is kept,
\* and both are written to their files; a file that is not JSON or a
\* document that is no bundle object changes neither the state in memory
\* nor the files.
C27_ImportReplaces ==
    [][last'.op = "import"
          => (/\ ShownNext("Success")
                    => (/\ Replaced
                        /\ data_file' = Dump(assets')
                        /\ owners_file' = Dump(owners'))
              /\ ImportRefused
                    => (/\ ~ShownNext("Success")
                        /\ assets' = assets
                        /\ owners' = owners
                        /\ data_file' = data_file
                        /\ owners_file' = owners_file))]_vars

\* C27, the files being those whose save went through
C27_ImportReplacesWhenSaved ==
    [][last'.op = "import"
          => (/\ ShownNext("Success")
                    => (/\ Replaced
                        /\ last'.save = "ok" => data_file' = Dump(assets')
                        /\ last'.save_owners = "ok" => owners_file' = Dump(owners'))
              /\ ImportRefused
                    => (/\ ~ShownNext("Success")
                        /\ assets' = assets
                        /\ owners' = owners
                        /\ data_file' = data_file
                        /\ owners_file' = owners_file))]_vars

\* an import without the two keys has emptied a collection that held assets
C27_EmptiedReached ==
    /\ last.op = "import"
    /\ Shown("Success")
    /\ assets = <<>>
    /\ owners = <<>>
    /\ data_file = Dump(<<>>)
    /\ owners_file = Dump(<<>>)

====
